---- MODULE Spec2Model ----
(***************************************************************************)
(* Model of html2csv (package htmltable and the command's main).            *)
(*                                                                         *)
(* A rune is its code point, a Go string the sequence of its runes, so     *)
(* that trimming, splitting, concatenation, integer parsing and the UTF-8  *)
(* encoding are computed, not assumed. Rune and Str turn the characters    *)
(* and strings written in this module into code points.                    *)
(* A document is the node tree html.Parse hands to the package: the nodes  *)
(* in pre-order, each with its depth below the document node (node 0).     *)
(***************************************************************************)
EXTENDS Integers, Sequences, FiniteSets, TLC

(* ---------------------------- bounds ----------------------------------- *)
MaxNodes == 8            \* nodes of a document of tables
MaxFallbackNodes == 8    \* nodes of a document of tables and a listing
MaxListingNodes == 6     \* nodes of a document of <pre> listings
MaxSelLen == 4           \* characters of a selector expression
MaxTables == 2           \* tables of a list given to Apply or SkipHeader

(* ---------------------------- strings ---------------------------------- *)
\* the code point of a character written as a TLA+ string
Rune(c) ==
    LET DigitChars == <<"0", "1", "2", "3", "4", "5", "6", "7", "8", "9">>
        LowerChars ==
            <<"a", "b", "c", "d", "e", "f", "g", "h", "i", "j", "k", "l", "m",
              "n", "o", "p", "q", "r", "s", "t", "u", "v", "w", "x", "y", "z">>
    IN  CASE c = "\t" -> 9
          [] c = "\n" -> 10
          [] c = "\f" -> 12
          [] c = "\r" -> 13
          [] c = " " -> 32
          [] c = "\"" -> 34
          [] c = "+" -> 43
          [] c = "," -> 44
          [] c = "-" -> 45
          [] c = "." -> 46
          [] c = ";" -> 59
          [] c = "\\" -> 92
          [] \E i \in 1..10 : DigitChars[i] = c ->
                47 + (CHOOSE i \in 1..10 : DigitChars[i] = c)
          [] OTHER -> 96 + (CHOOSE i \in 1..26 : LowerChars[i] = c)

\* the Go string of a sequence of characters
Str(cs) == [k \in 1..Len(cs) |-> Rune(cs[k])]

\* runes by name
NUL == 0
VT == 11
NEL == 133
NBSP == 160
EAcute == 233
RuneError == 65533
MaxRune == 1114111
RuneSelf == 128
UTFMax == 4
Tab == 9
LF == 10
CR == 13
Space == 32
Quote == 34
CommaRune == 44

\* unicode.IsSpace: the Latin-1 spaces, U+1680 and the space separators of
\* Unicode (category Z)
IsSpace(c) ==
    \/ c \in {Tab, LF, VT, Rune("\f"), CR, Space, NEL, NBSP}
    \/ c \in {5760, 8232, 8233, 8239, 8287, 12288}
    \/ c \in 8192..8202

\* utf8.ValidRune: not a surrogate half, not beyond U+10FFFF
ValidRune(r) ==
    \/ 0 <= r /\ r < 55296
    \/ 57343 < r /\ r <= MaxRune

\* utf8.EncodeRune: the bytes of a rune; an invalid rune is written as U+FFFD
Utf8(r) ==
    LET c == IF ValidRune(r) THEN r ELSE RuneError
    IN  IF c < RuneSelf THEN <<c>>
        ELSE IF c < 2048 THEN <<192 + (c \div 64), 128 + (c % 64)>>
        ELSE IF c < 65536
             THEN <<224 + (c \div 4096), 128 + ((c \div 64) % 64), 128 + (c % 64)>>
        ELSE <<240 + (c \div 262144), 128 + ((c \div 4096) % 64),
               128 + ((c \div 64) % 64), 128 + (c % 64)>>

\* the bytes of a Go string
RECURSIVE Utf8Str(_)
Utf8Str(s) ==
    IF Len(s) = 0 THEN <<>>
    ELSE IF Len(s) = 1 THEN Utf8(s[1])
    ELSE LET h == Len(s) \div 2
         IN  Utf8Str(SubSeq(s, 1, h)) \o Utf8Str(SubSeq(s, h + 1, Len(s)))

RECURSIVE TrimLeft(_)
TrimLeft(s) ==
    IF s = <<>> THEN <<>>
    ELSE IF IsSpace(Head(s)) THEN TrimLeft(Tail(s)) ELSE s

RECURSIVE TrimRight(_)
TrimRight(s) ==
    IF s = <<>> THEN <<>>
    ELSE IF IsSpace(s[Len(s)]) THEN TrimRight(SubSeq(s, 1, Len(s) - 1)) ELSE s

\* strings.TrimSpace
TrimSpace(s) == TrimRight(TrimLeft(s))

\* strings.Fields: the maximal runs of non-space characters, in order
RECURSIVE FieldsAcc(_, _, _)
FieldsAcc(s, cur, acc) ==
    IF s = <<>> THEN (IF cur = <<>> THEN acc ELSE Append(acc, cur))
    ELSE IF IsSpace(Head(s))
         THEN FieldsAcc(Tail(s), <<>>, IF cur = <<>> THEN acc ELSE Append(acc, cur))
         ELSE FieldsAcc(Tail(s), Append(cur, Head(s)), acc)

Fields(s) == FieldsAcc(s, <<>>, <<>>)

\* strings.SplitSeq(s, ","): the parts between commas, empty parts included
RECURSIVE SplitAcc(_, _, _)
SplitAcc(s, cur, acc) ==
    IF s = <<>> THEN Append(acc, cur)
    ELSE IF Head(s) = CommaRune
         THEN SplitAcc(Tail(s), <<>>, Append(acc, cur))
         ELSE SplitAcc(Tail(s), Append(cur, Head(s)), acc)

SplitComma(s) == SplitAcc(s, <<>>, <<>>)

Digits == Rune("0")..Rune("9")

DigitVal(c) == c - Rune("0")

RECURSIVE DigitsVal(_, _)
DigitsVal(s, acc) ==
    IF s = <<>> THEN acc ELSE DigitsVal(Tail(s), acc * 10 + DigitVal(Head(s)))

\* the decimal digits of the largest int and of the magnitude of the smallest
MaxIntDigits ==
    Str(<<"9", "2", "2", "3", "3", "7", "2", "0", "3", "6",
        "8", "5", "4", "7", "7", "5", "8", "0", "7">>)
MinIntDigits ==
    Str(<<"9", "2", "2", "3", "3", "7", "2", "0", "3", "6",
        "8", "5", "4", "7", "7", "5", "8", "0", "8">>)

RECURSIVE StripZeros(_)
StripZeros(s) ==
    IF Len(s) > 1 /\ Head(s) = Rune("0") THEN StripZeros(Tail(s)) ELSE s

\* a <= b for digit strings of the same length
RECURSIVE DigitsLE(_, _)
DigitsLE(a, b) ==
    IF a = <<>> THEN TRUE
    ELSE IF DigitVal(Head(a)) < DigitVal(Head(b)) THEN TRUE
    ELSE IF DigitVal(Head(a)) > DigitVal(Head(b)) THEN FALSE
    ELSE DigitsLE(Tail(a), Tail(b))

\* whether a decimal fits the 64-bit int
InIntRange(neg, body) ==
    LET d == StripZeros(body)
        lim == IF neg THEN MinIntDigits ELSE MaxIntDigits
    IN  Len(d) < Len(lim) \/ (Len(d) = Len(lim) /\ DigitsLE(d, lim))

\* strconv.Atoi: an optional sign, then one or more decimal digits; a value
\* outside the int range is an error like a syntax error
Atoi(s) ==
    LET signed == s # <<>> /\ Head(s) \in {Rune("+"), Rune("-")}
        neg    == signed /\ Head(s) = Rune("-")
        body   == IF signed THEN Tail(s) ELSE s
        ok     == /\ body # <<>>
                  /\ \A k \in 1..Len(body) : body[k] \in Digits
                  /\ InIntRange(neg, body)
        mag    == IF ok THEN DigitsVal(body, 0) ELSE 0
    IN  [ok  |-> ok,
         val |-> IF neg THEN 0 - mag ELSE mag]

(* ---------------------------- node tree -------------------------------- *)
Nil == -1

ElementNode == "ElementNode"
TextNode == "TextNode"
DocumentNode == "DocumentNode"

NodeDepth(d, n) == IF n = 0 THEN 0 ELSE d[n].depth
NodeType(d, n) == IF n = 0 THEN DocumentNode ELSE d[n].Type
NodeAtom(d, n) == IF n = 0 THEN "" ELSE d[n].DataAtom
NodeData(d, n) == IF n = 0 THEN <<>> ELSE d[n].Data
NodeAttr(d, n) == IF n = 0 THEN <<>> ELSE d[n].Attr

IsElement(d, n, a) == NodeType(d, n) = ElementNode /\ NodeAtom(d, n) = a

\* first node after n's subtree (Len(d) + 1 when the subtree ends the document)
SubtreeEnd(d, n) ==
    LET after == {j \in (n + 1)..Len(d) : d[j].depth <= NodeDepth(d, n)}
    IN  IF after = {} THEN Len(d) + 1
        ELSE CHOOSE j \in after : \A k \in after : j <= k

FirstChild(d, n) ==
    IF n < Len(d) /\ d[n + 1].depth = NodeDepth(d, n) + 1 THEN n + 1 ELSE Nil

NextSibling(d, n) ==
    IF n = 0 THEN Nil
    ELSE LET j == SubtreeEnd(d, n)
         IN  IF j <= Len(d) /\ d[j].depth = d[n].depth THEN j ELSE Nil

\* textContent: the data of every text node of n's subtree, concatenated
RECURSIVE textWalk(_, _, _), textWalkChildren(_, _, _)
textWalk(d, n, b) ==
    LET b1 == IF NodeType(d, n) = TextNode THEN b \o NodeData(d, n) ELSE b
    IN  textWalkChildren(d, FirstChild(d, n), b1)
textWalkChildren(d, c, b) ==
    IF c = Nil THEN b
    ELSE textWalkChildren(d, NextSibling(d, c), textWalk(d, c, b))

textContent(d, n) == textWalk(d, n, <<>>)

(* ---------------------------- grid normalizer -------------------------- *)
RECURSIVE MaxLen(_)
MaxLen(rows) ==
    IF rows = <<>> THEN 0
    ELSE LET m == MaxLen(Tail(rows))
         IN  IF Len(Head(rows)) > m THEN Len(Head(rows)) ELSE m

IsBlank(s) == TrimSpace(s) = <<>>

\* faulty variant: a row shorter than a kept column gets no "" for it
trimEmptyColumnsNoFill(rows) ==
    IF Len(rows) = 0 THEN rows
    ELSE LET maxCols == MaxLen(rows)
             keep == [c \in 1..maxCols |->
                         \E i \in 1..Len(rows) :
                             c <= Len(rows[i]) /\ ~IsBlank(rows[i][c])]
             kept == SelectSeq([c \in 1..maxCols |-> c], LAMBDA c : keep[c])
         IN  [i \in 1..Len(rows) |->
                 LET mine == SelectSeq(kept, LAMBDA c : c <= Len(rows[i]))
                 IN  [k \in 1..Len(mine) |-> rows[i][mine[k]]]]

\* faulty variant: a column is kept only when no row is blank in it
trimEmptyColumnsAllRows(rows) ==
    IF Len(rows) = 0 THEN rows
    ELSE LET maxCols == MaxLen(rows)
             keep == [c \in 1..maxCols |->
                         \A i \in 1..Len(rows) :
                             c <= Len(rows[i]) /\ ~IsBlank(rows[i][c])]
             kept == SelectSeq([c \in 1..maxCols |-> c], LAMBDA c : keep[c])
         IN  [i \in 1..Len(rows) |->
                 [k \in 1..Len(kept) |->
                     IF kept[k] <= Len(rows[i]) THEN rows[i][kept[k]] ELSE <<>>]]

trimEmptyColumns(rows) ==
    IF Len(rows) = 0 THEN rows
    ELSE LET maxCols == MaxLen(rows)
             keep == [c \in 1..maxCols |->
                         \E i \in 1..Len(rows) :
                             c <= Len(rows[i]) /\ ~IsBlank(rows[i][c])]
             kept == SelectSeq([c \in 1..maxCols |-> c], LAMBDA c : keep[c])
         IN  [i \in 1..Len(rows) |->
                 [k \in 1..Len(kept) |->
                     IF kept[k] <= Len(rows[i]) THEN rows[i][kept[k]] ELSE <<>>]]

\* faulty variant: no row is dropped
dropEmptyRowsKeepAll(rows) == rows

dropEmptyRows(rows) ==
    SelectSeq(rows, LAMBDA r : \E k \in 1..Len(r) : ~IsBlank(r[k]))

normalize(rows) ==
    LET maxCols == MaxLen(rows)
    IN  [i \in 1..Len(rows) |->
            [k \in 1..maxCols |-> IF k <= Len(rows[i]) THEN rows[i][k] ELSE <<>>]]

\* the three passes extractRows runs on its raw rows
cleanRows(rows) == normalize(dropEmptyRows(trimEmptyColumns(rows)))

(* ---------------------------- row extractor ---------------------------- *)
\* the loop over a <tr>'s direct children: one trimmed field per <td>/<th>
RECURSIVE rowCells(_, _, _)
rowCells(d, c, row) ==
    IF c = Nil THEN row
    ELSE rowCells(d, NextSibling(d, c),
                  IF IsElement(d, c, "td") \/ IsElement(d, c, "th")
                  THEN Append(row, TrimSpace(textContent(d, c)))
                  ELSE row)

\* extractRows' walk: every <tr> of the subtree, in document order
RECURSIVE rowsWalk(_, _, _), rowsWalkChildren(_, _, _)
\* faulty variant: the walk does not descend into the children of a <tr>,
\* so the rows of a table nested in a cell are missed
rowsWalkOwnRows(d, n, rows) ==
    LET row == rowCells(d, FirstChild(d, n), <<>>)
    IN  IF IsElement(d, n, "tr")
        THEN IF Len(row) > 0 THEN Append(rows, row) ELSE rows
        ELSE rowsWalkChildren(d, FirstChild(d, n), rows)

rowsWalk(d, n, rows) ==
    LET row == rowCells(d, FirstChild(d, n), <<>>)
        rows1 == IF IsElement(d, n, "tr") /\ Len(row) > 0
                 THEN Append(rows, row) ELSE rows
    IN  rowsWalkChildren(d, FirstChild(d, n), rows1)
rowsWalkChildren(d, c, rows) ==
    IF c = Nil THEN rows
    ELSE rowsWalkChildren(d, NextSibling(d, c), rowsWalk(d, c, rows))

rawRows(d, table) == rowsWalk(d, table, <<>>)

\* faulty variant: the raw rows only lose their blank rows (no column trim, no padding)
extractRowsUnpadded(d, table) == dropEmptyRows(rawRows(d, table))

extractRows(d, table) ==
    normalize(dropEmptyRows(trimEmptyColumns(rawRows(d, table))))

(* ---------------------------- directory listing ------------------------ *)
directory == Str(<<"d", "i", "r", "e", "c", "t", "o", "r", "y">>)

NoTable == [Index |-> 0, ID |-> <<>>, Name |-> <<>>, Rows |-> <<>>]

RECURSIVE firstWalk(_, _, _, _), firstWalkChildren(_, _, _, _)
\* faulty variant: the walk does not stop at the first match, so the last
\* matching element wins
firstWalkLast(d, n, a, found) ==
    IF IsElement(d, n, a) THEN n
    ELSE firstWalkChildren(d, FirstChild(d, n), a, found)

firstWalk(d, n, a, found) ==
    IF found # Nil THEN found
    ELSE IF IsElement(d, n, a) THEN n
    ELSE firstWalkChildren(d, FirstChild(d, n), a, found)
firstWalkChildren(d, c, a, found) ==
    IF c = Nil THEN found
    ELSE firstWalkChildren(d, NextSibling(d, c), a, firstWalk(d, c, a, found))

firstElement(d, root, a) == firstWalk(d, root, a, Nil)

\* faulty variant: the third field is the last token, not the third
anchorRowLastToken(d, n) ==
    LET text == TrimSpace(textContent(d, n))
        s == NextSibling(d, n)
        meta == IF s # Nil /\ NodeType(d, s) = TextNode
                THEN TrimSpace(NodeData(d, s)) ELSE <<>>
        fields == Fields(meta)
        row1 == <<text>>
        row2 == IF Len(fields) >= 2
                THEN Append(row1, fields[1] \o <<Space>> \o fields[2]) ELSE row1
    IN  IF Len(fields) >= 3 THEN Append(row2, fields[Len(fields)]) ELSE row2

\* the row a data anchor yields: its name, then the date pair and the size
anchorRow(d, n) ==
    LET text == TrimSpace(textContent(d, n))
        s == NextSibling(d, n)
        meta == IF s # Nil /\ NodeType(d, s) = TextNode
                THEN TrimSpace(NodeData(d, s)) ELSE <<>>
        fields == Fields(meta)
        row1 == <<text>>
        row2 == IF Len(fields) >= 2
                THEN Append(row1, fields[1] \o <<Space>> \o fields[2]) ELSE row1
    IN  IF Len(fields) >= 3 THEN Append(row2, fields[3]) ELSE row2

\* the loop over the <pre>'s direct children
RECURSIVE listingLoop(_, _, _)
listingLoop(d, n, st) ==
    IF n = Nil THEN st
    ELSE listingLoop(d, NextSibling(d, n),
            IF IsElement(d, n, "hr") THEN [st EXCEPT !.inHeader = FALSE]
            ELSE IF IsElement(d, n, "a")
                 THEN IF st.inHeader
                      THEN [st EXCEPT !.header =
                               Append(@, TrimSpace(textContent(d, n)))]
                      ELSE [st EXCEPT !.rows = Append(@, anchorRow(d, n))]
                 ELSE st)

\* rows[i] = append(rows[i], "") while len(rows[i]) < len(header)
padToHeader(row, header) ==
    IF Len(row) >= Len(header) THEN row
    ELSE [k \in 1..Len(header) |-> IF k <= Len(row) THEN row[k] ELSE <<>>]

parseDirectoryListing(d) ==
    LET pre == firstElement(d, 0, "pre")
        st == listingLoop(d, FirstChild(d, pre),
                          [header |-> <<>>, rows |-> <<>>, inHeader |-> TRUE])
    IN  IF pre = Nil THEN [t |-> NoTable, ok |-> FALSE]
        ELSE IF Len(st.header) = 0 \/ Len(st.rows) = 0
             THEN [t |-> NoTable, ok |-> FALSE]
        ELSE [t |-> [Index |-> 1, ID |-> <<>>, Name |-> directory,
                     Rows |-> <<st.header>> \o
                              [i \in 1..Len(st.rows) |->
                                  padToHeader(st.rows[i], st.header)]],
              ok |-> TRUE]

(* ---------------------------- table locator ---------------------------- *)
\* for _, a := range n.Attr: the last "id" / "name" attribute wins
RECURSIVE attrVal(_, _, _)
attrVal(attrs, key, cur) ==
    IF attrs = <<>> THEN cur
    ELSE attrVal(Tail(attrs), key,
                 IF Head(attrs).Key = key THEN Head(attrs).Val ELSE cur)

\* faulty variant: the counter advances only when the table is kept
visitTableCountKept(d, n, st) ==
    LET rows == extractRows(d, n)
    IN  IF Len(rows) > 0
        THEN [index |-> st.index + 1,
              tables |-> Append(st.tables,
                            [Index |-> st.index + 1,
                             ID |-> attrVal(NodeAttr(d, n), "id", <<>>),
                             Name |-> attrVal(NodeAttr(d, n), "name", <<>>),
                             Rows |-> rows])]
        ELSE st

\* faulty variant: a table element is recorded whether or not it has rows
visitTableKeepEmpty(d, n, st) ==
    [index |-> st.index + 1,
     tables |-> Append(st.tables,
                   [Index |-> st.index + 1,
                    ID |-> attrVal(NodeAttr(d, n), "id", <<>>),
                    Name |-> attrVal(NodeAttr(d, n), "name", <<>>),
                    Rows |-> extractRows(d, n)])]

\* the body of Parse's walk for a <table> element
visitTable(d, n, st) ==
    LET index == st.index + 1
        rows == extractRows(d, n)
    IN  [index |-> index,
         tables |-> IF Len(rows) > 0
                    THEN Append(st.tables,
                            [Index |-> index,
                             ID |-> attrVal(NodeAttr(d, n), "id", <<>>),
                             Name |-> attrVal(NodeAttr(d, n), "name", <<>>),
                             Rows |-> rows])
                    ELSE st.tables]

RECURSIVE parseWalk(_, _, _), parseWalkChildren(_, _, _)
parseWalk(d, n, st) ==
    parseWalkChildren(d, FirstChild(d, n),
                      IF IsElement(d, n, "table") THEN visitTable(d, n, st) ELSE st)
parseWalkChildren(d, c, st) ==
    IF c = Nil THEN st
    ELSE parseWalkChildren(d, NextSibling(d, c), parseWalk(d, c, st))

locateTables(d) == parseWalk(d, 0, [index |-> 0, tables |-> <<>>]).tables

\* faulty variant: the fallback runs whatever the locator found
ParseAlwaysFallback(d, readFails) ==
    IF readFails THEN [tables |-> <<>>, err |-> "read"]
    ELSE LET found == locateTables(d)
             dir == parseDirectoryListing(d)
         IN  [tables |-> IF dir.ok THEN Append(found, dir.t) ELSE found,
              err |-> "nil"]

\* Parse; readFails stands for html.Parse returning the reader's error
Parse(d, readFails) ==
    IF readFails THEN [tables |-> <<>>, err |-> "read"]
    ELSE LET found == locateTables(d)
             dir == parseDirectoryListing(d)
         IN  [tables |-> IF Len(found) = 0 /\ dir.ok
                         THEN Append(found, dir.t) ELSE found,
              err |-> "nil"]

(* ---------------------------- selector ------------------------------ *)
EmptySelector == [Indexes |-> {}, Names |-> {}]

\* faulty variant: only negative indices are rejected
selectPartAllowZero(st, part) ==
    LET p == TrimSpace(part)
        i == Atoi(p)
    IN  IF p = <<>> THEN st
        ELSE IF i.ok
             THEN IF i.val < 0
                  THEN [st EXCEPT !.err = "table index must be >= 1"]
                  ELSE [st EXCEPT !.sel.Indexes = @ \cup {i.val}]
             ELSE [st EXCEPT !.sel.Names = @ \cup {p}]

\* the body of ParseSelector's loop for one part
selectPart(st, part) ==
    LET p == TrimSpace(part)
        i == Atoi(p)
    IN  IF p = <<>> THEN st
        ELSE IF i.ok
             THEN IF i.val <= 0
                  THEN [st EXCEPT !.err = "table index must be >= 1"]
                  ELSE [st EXCEPT !.sel.Indexes = @ \cup {i.val}]
             ELSE [st EXCEPT !.sel.Names = @ \cup {p}]

\* the loop over the parts; it returns at the first error
RECURSIVE selectLoop(_, _)
selectLoop(parts, st) ==
    IF parts = <<>> \/ st.err # "nil" THEN st
    ELSE selectLoop(Tail(parts), selectPart(st, Head(parts)))

ParseSelector(s) ==
    IF TrimSpace(s) = <<>> THEN [sel |-> EmptySelector, err |-> "nil"]
    ELSE selectLoop(SplitComma(s), [sel |-> EmptySelector, err |-> "nil"])

\* faulty variant: a table matched by its index is tested against the names as well
applyTableNoContinue(s, t, acc) ==
    LET acc1 == IF t.Index \in s.Indexes THEN Append(acc, t) ELSE acc
    IN  IF t.ID \in s.Names THEN Append(acc1, t)
        ELSE IF t.Name \in s.Names THEN Append(acc1, t)
        ELSE acc1

\* the body of Apply's loop for one table
applyTable(s, t, acc) ==
    IF t.Index \in s.Indexes THEN Append(acc, t)
    ELSE IF t.ID \in s.Names THEN Append(acc, t)
    ELSE IF t.Name \in s.Names THEN Append(acc, t)
    ELSE acc

RECURSIVE applyLoop(_, _, _)
applyLoop(s, ts, acc) ==
    IF ts = <<>> THEN acc
    ELSE applyLoop(s, Tail(ts), applyTable(s, Head(ts), acc))

\* faulty variant: the empty selector is not treated apart
ApplyAlwaysFilter(s, ts) == applyLoop(s, ts, <<>>)

\* Selector.Apply
Apply(s, ts) ==
    IF Cardinality(s.Indexes) = 0 /\ Cardinality(s.Names) = 0 THEN ts
    ELSE applyLoop(s, ts, <<>>)

(* ---------------------------- header skipper --------------------------- *)
RECURSIVE skipLoop(_, _)
skipLoop(ts, acc) ==
    IF ts = <<>> THEN acc
    ELSE LET t == Head(ts)
         IN  skipLoop(Tail(ts),
                      IF Len(t.Rows) > 1
                      THEN Append(acc, [t EXCEPT !.Rows = Tail(t.Rows)])
                      ELSE acc)

\* faulty variant: a table with a single row is kept and loses that row
RECURSIVE skipLoopKeepSingle(_, _)
skipLoopKeepSingle(ts, acc) ==
    IF ts = <<>> THEN acc
    ELSE LET t == Head(ts)
         IN  skipLoopKeepSingle(Tail(ts),
                      IF Len(t.Rows) > 0
                      THEN Append(acc, [t EXCEPT !.Rows = Tail(t.Rows)])
                      ELSE acc)

SkipHeaderKeepSingle(ts) == skipLoopKeepSingle(ts, <<>>)

SkipHeader(ts) == skipLoop(ts, <<>>)

(* ---------------------------- argument memory ------------------------ *)
\* The two calls once more, now with the caller's slice as memory: arg is
\* the content of the caller's backing array, out the slice being built.
\* "for _, t := range tables" copies element i into t.

\* Apply's loop body for element i: the copy t is appended when it matches
applyStep(s, st, i) ==
    LET t == st.arg[i]
    IN  [arg |-> st.arg, out |-> applyTable(s, t, st.out)]

RECURSIVE applyCallLoop(_, _, _)
applyCallLoop(s, st, i) ==
    IF i > Len(st.arg) THEN st
    ELSE applyCallLoop(s, applyStep(s, st, i), i + 1)

\* Selector.Apply: the caller's slice after the call, and the slice returned
\* (the caller's own slice for the empty selector)
ApplyCall(s, ts) ==
    IF Cardinality(s.Indexes) = 0 /\ Cardinality(s.Names) = 0
    THEN [arg |-> ts, out |-> ts]
    ELSE applyCallLoop(s, [arg |-> ts, out |-> <<>>], 1)

\* faulty variant: the header is cut off the caller's element
\* (tables[i].Rows = tables[i].Rows[1:]) instead of the copy
skipStepInPlace(st, i) ==
    IF Len(st.arg[i].Rows) > 1
    THEN LET cut == [st.arg EXCEPT ![i].Rows = Tail(@)]
         IN  [arg |-> cut, out |-> Append(st.out, cut[i])]
    ELSE st

\* SkipHeader's loop body for element i: t.Rows = t.Rows[1:] acts on the copy
skipStep(st, i) ==
    LET t == st.arg[i]
    IN  IF Len(t.Rows) > 1
        THEN [arg |-> st.arg, out |-> Append(st.out, [t EXCEPT !.Rows = Tail(t.Rows)])]
        ELSE st

RECURSIVE skipCallLoop(_, _)
skipCallLoop(st, i) ==
    IF i > Len(st.arg) THEN st
    ELSE skipCallLoop(skipStep(st, i), i + 1)

\* SkipHeader: the caller's slice after the call, and the slice returned
SkipHeaderCall(ts) == skipCallLoop([arg |-> ts, out |-> <<>>], 1)

(* ---------------------------- CSV encoder ---------------------------- *)
\* the size of the buffer csv.NewWriter puts before the destination
\* (bufio.NewWriter's default)
BufSize == 4096

\* The writer state: buf is the bufio buffer and data what the destination
\* accepted, both in bytes; err is the sticky error; fails says every write
\* to the destination fails; sw says the destination is an io.StringWriter
\* (bytes.Buffer and os.Stdout are, the test's errWriter is not).
NewWriter(fails, sw) ==
    [buf |-> <<>>, err |-> "nil", data |-> <<>>, fails |-> fails, sw |-> sw]

\* bufio.Writer.Available
Available(w) == BufSize - Len(w.buf)

\* bufio.Writer.Flush
Flush(w) ==
    IF w.err # "nil" THEN w
    ELSE IF w.buf = <<>> THEN w
    ELSE IF w.fails THEN [w EXCEPT !.err = "write failed"]
    ELSE [w EXCEPT !.data = @ \o w.buf, !.buf = <<>>]

\* bufio.Writer.WriteByte: a full buffer is flushed before the byte is stored
WriteByte(w, c) ==
    IF w.err # "nil" THEN w
    ELSE LET w1 == IF Available(w) <= 0 THEN Flush(w) ELSE w
         IN  IF w1.err # "nil" THEN w1
             ELSE [w1 EXCEPT !.buf = Append(@, c)]

\* bufio.Writer.WriteString, s in bytes: while s is longer than the free
\* space, an empty buffer before an io.StringWriter passes all of s on,
\* otherwise the buffer is filled and flushed; what is left is stored
RECURSIVE WriteString(_, _)
WriteString(w, s) ==
    IF w.err # "nil" THEN w
    ELSE IF Len(s) > Available(w)
    THEN IF Len(w.buf) = 0 /\ w.sw
         THEN IF w.fails THEN [w EXCEPT !.err = "write failed"]
              ELSE [w EXCEPT !.data = @ \o s]
         ELSE WriteString(Flush([w EXCEPT !.buf = @ \o SubSeq(s, 1, Available(w))]),
                          SubSeq(s, Available(w) + 1, Len(s)))
    ELSE [w EXCEPT !.buf = @ \o s]

\* bufio.Writer.WriteRune: a rune below utf8.RuneSelf is one WriteByte; for
\* any other the buffer is flushed when fewer than utf8.UTFMax bytes are free
WriteRune(w, r) ==
    IF r >= 0 /\ r < RuneSelf THEN WriteByte(w, r)
    ELSE IF w.err # "nil" THEN w
    ELSE LET w1 == IF Available(w) < UTFMax THEN Flush(w) ELSE w
         IN  IF w1.err # "nil" THEN w1
             ELSE IF Available(w1) < UTFMax THEN WriteString(w1, Utf8(r))
             ELSE [w1 EXCEPT !.buf = @ \o Utf8(r)]

\* csv.Writer.fieldNeedsQuotes
fieldNeedsQuotes(field, delim) ==
    IF field = <<>> THEN FALSE
    ELSE \/ field = Str(<<"\\", ".">>)
         \/ \E k \in 1..Len(field) : field[k] \in {delim, Quote, CR, LF}
         \/ IsSpace(field[1])

\* strings.IndexAny(field, "\"\r\n"), counted from 1; Len(field) + 1 when
\* there is none
IndexSpecial(field) ==
    IF \E k \in 1..Len(field) : field[k] \in {Quote, CR, LF}
    THEN CHOOSE k \in 1..Len(field) :
             /\ field[k] \in {Quote, CR, LF}
             /\ \A j \in 1..(k - 1) : field[j] \notin {Quote, CR, LF}
    ELSE Len(field) + 1

\* the loop of csv.Writer.Write over a quoted field: the text up to the next
\* quote, CR or LF, then that byte, a quote doubled; it ends at an error
RECURSIVE writeQuoted(_, _)
writeQuoted(w, field) ==
    IF w.err # "nil" \/ field = <<>> THEN w
    ELSE LET i  == IndexSpecial(field)
             w1 == WriteString(w, Utf8Str(SubSeq(field, 1, i - 1)))
         IN  IF w1.err # "nil" \/ i > Len(field) THEN w1
             ELSE writeQuoted(IF field[i] = Quote
                              THEN WriteString(w1, <<Quote, Quote>>)
                              ELSE WriteByte(w1, field[i]),
                              SubSeq(field, i + 1, Len(field)))

\* one field of csv.Writer.Write: the delimiter before every field but the
\* first, then the field, in quotes when it needs them. Write returns at the
\* first write that fails; here the error is sticky in the writer and every
\* later write leaves the writer as it is.
writeField(w, field, delim, n) ==
    IF ~fieldNeedsQuotes(field, delim)
    THEN WriteString(IF n > 1 THEN WriteRune(w, delim) ELSE w, Utf8Str(field))
    ELSE WriteByte(writeQuoted(WriteByte(IF n > 1 THEN WriteRune(w, delim) ELSE w,
                                         Quote),
                               field),
                   Quote)

\* the loop of csv.Writer.Write over the fields; it ends at an error
RECURSIVE writeFields(_, _, _, _)
writeFields(w, record, delim, n) ==
    IF n > Len(record) \/ w.err # "nil" THEN w
    ELSE writeFields(writeField(w, record[n], delim, n), record, delim, n + 1)

\* csv.validDelim
validDelim(r) ==
    /\ r # 0
    /\ r # Quote
    /\ r # CR
    /\ r # LF
    /\ ValidRune(r)
    /\ r # RuneError

\* csv.Writer.Write: the writer afterwards and the error it returns
csvWrite(w, record, delim) ==
    IF ~validDelim(delim) THEN [w |-> w, err |-> "csv: invalid field or comment delimiter"]
    ELSE LET w1 == WriteByte(writeFields(w, record, delim, 1), LF)
         IN  [w |-> w1, err |-> w1.err]

\* the loop over a table's rows: st.w is the writer and st.err the error of
\* the last cw.Write, at which Encode returns
RECURSIVE encodeRows(_, _, _)
encodeRows(st, rows, delim) ==
    IF rows = <<>> \/ st.err # "nil" THEN st
    ELSE encodeRows(csvWrite(st.w, Head(rows), delim), Tail(rows), delim)

\* the empty record after a table's rows, its error dropped
writeBlank(st, delim) ==
    IF st.err # "nil" THEN st
    ELSE [w |-> csvWrite(st.w, <<>>, delim).w, err |-> "nil"]

\* faulty variant: the empty record is written between tables only, not
\* after the last one
RECURSIVE encodeTablesBetween(_, _, _)
encodeTablesBetween(st, ts, delim) ==
    IF ts = <<>> \/ st.err # "nil" THEN st
    ELSE IF Tail(ts) = <<>> THEN encodeRows(st, Head(ts).Rows, delim)
    ELSE encodeTablesBetween(writeBlank(encodeRows(st, Head(ts).Rows, delim), delim),
                             Tail(ts), delim)

\* the loop over the tables: the rows, then one empty record
RECURSIVE encodeTables(_, _, _)
encodeTables(st, ts, delim) ==
    IF ts = <<>> \/ st.err # "nil" THEN st
    ELSE encodeTables(writeBlank(encodeRows(st, Head(ts).Rows, delim), delim),
                      Tail(ts), delim)

\* what Encode returns and what the destination holds afterwards: the error
\* of the failed cw.Write, else cw.Error(), the sticky error, read before
\* the deferred cw.Flush() runs
encodeReturn(st) ==
    [err  |-> IF st.err # "nil" THEN st.err ELSE st.w.err,
     data |-> Flush(st.w).data]

\* CSVEncoder.Encode
Encode(delim, fails, sw, ts) ==
    encodeReturn(encodeTables([w |-> NewWriter(fails, sw), err |-> "nil"], ts, delim))

(* ---------------------------- state ------------------------------------ *)
VARIABLES
    doc,        \* the node tree given to Parse (nodes 1..Len(doc), pre-order)
    pc,         \* "build" while the input is being chosen, then the call made
    tables,     \* the table list Parse returned
    err,        \* the error Parse returned ("nil" when none)
    listing,    \* the result of a direct call of parseDirectoryListing
    selIn,      \* the selector expression given to ParseSelector
    sel,        \* the Selector value
    selErr,     \* the error ParseSelector returned ("nil" when none)
    out,        \* the list Selector.Apply or SkipHeader returned
    comma,      \* the delimiter of the CSVEncoder (e.Comma)
    wfails,     \* whether every Write of the destination fails
    written,    \* the bytes the destination has received
    encErr,     \* the error Encode returned ("nil" when none)
    grid,       \* a row list given to the grid normalizer
    gridOut,    \* the row list a normalizer pass returned
    gridAgain,  \* the row list a second run of the passes returned
    opts,       \* the command-line options of main
    exit        \* the exit status of main ("running" until it ends)

vars == <<doc, pc, tables, err, listing, selIn, sel, selErr, out,
          comma, wfails, written, encErr, grid, gridOut, gridAgain, opts, exit>>

selVars == <<selIn, sel, selErr, out>>
encVars == <<comma, wfails, written, encErr>>
gridVars == <<grid, gridOut, gridAgain>>
mainVars == <<opts, exit>>

(* ---------------------------- input documents -------------------------- *)
\* an element node (its Data, the tag name, is never read) and a text node
Elem(a, attrs) ==
    [Type |-> ElementNode, DataAtom |-> a, Data |-> <<>>, Attr |-> attrs]
Text(s) == [Type |-> TextNode, DataAtom |-> "", Data |-> s, Attr |-> <<>>]

t1 == Str(<<"t", "1">>)
alpha == Str(<<"a">>)

TableAttrs ==
    { <<>>,
      <<[Key |-> "id", Val |-> t1], [Key |-> "name", Val |-> alpha]>> }

\* a cell: <td> or <th>, without children or with one text child
CellFrags ==
    { <<Elem("td", <<>>)>>,
      <<Elem("td", <<>>), Text(Str(<<" ", "x">>))>>,
      <<Elem("th", <<>>), Text(<<Space, NBSP>>)>> }

\* the node a new node of depth dp is appended under
ParentAt(d, dp) ==
    IF dp = 1 THEN 0
    ELSE CHOOSE j \in 1..Len(d) :
             d[j].depth = dp - 1 /\ \A k \in (j + 1)..Len(d) : d[k].depth >= dp

LastDepth(d) == IF d = <<>> THEN 0 ELSE d[Len(d)].depth

ParentIn(d, dp, atoms) ==
    LET p == ParentAt(d, dp)
    IN  IF p = 0 THEN "#document" \in atoms
        ELSE d[p].Type = ElementNode /\ d[p].DataAtom \in atoms

\* frag: the nodes of a fragment, the first at depth dp, the rest its chain
Place(frag, dp) ==
    [k \in 1..Len(frag) |->
        [depth |-> dp + k - 1, Type |-> frag[k].Type,
         DataAtom |-> frag[k].DataAtom, Data |-> frag[k].Data,
         Attr |-> frag[k].Attr]]

Extend(frag, dp, parents, max) ==
    /\ pc = "build"
    /\ Len(doc) + Len(frag) <= max
    /\ dp \in 1..(LastDepth(doc) + 1)
    /\ ParentIn(doc, dp, parents)
    /\ doc' = doc \o Place(frag, dp)
    /\ UNCHANGED <<pc, tables, err, listing, selVars, encVars, gridVars, mainVars>>

\* documents of tables: tables at the top or nested in a cell
AddTable ==
    \E dp \in 1..MaxNodes, attrs \in TableAttrs :
        Extend(<<Elem("table", attrs)>>, dp, {"#document", "td"}, MaxNodes)

AddRow ==
    \E dp \in 1..MaxNodes :
        Extend(<<Elem("tr", <<>>)>>, dp, {"table"}, MaxNodes)

AddCell ==
    \E dp \in 1..MaxNodes, frag \in CellFrags :
        Extend(frag, dp, {"tr"}, MaxNodes)

\* documents of top-level tables and <pre> blocks
PlainCellFrags ==
    { <<Elem("td", <<>>)>>,
      <<Elem("td", <<>>), Text(Str(<<"x">>))>> }

AddTopTable ==
    Extend(<<Elem("table", <<[Key |-> "id", Val |-> t1]>>)>>, 1,
           {"#document"}, MaxFallbackNodes)

AddTopRow ==
    \E dp \in 1..MaxFallbackNodes :
        Extend(<<Elem("tr", <<>>)>>, dp, {"table"}, MaxFallbackNodes)

AddPlainCell ==
    \E dp \in 1..MaxFallbackNodes, frag \in PlainCellFrags :
        Extend(frag, dp, {"tr"}, MaxFallbackNodes)

AddPre ==
    Extend(<<Elem("pre", <<>>)>>, 1, {"#document"}, MaxFallbackNodes)

AddAnchor ==
    \E dp \in 1..MaxFallbackNodes :
        Extend(<<Elem("a", <<>>)>>, dp, {"pre"}, MaxFallbackNodes)

AddHr ==
    \E dp \in 1..MaxFallbackNodes :
        Extend(<<Elem("hr", <<>>)>>, dp, {"pre"}, MaxFallbackNodes)

\* documents of <pre> listings: anchors, rules, text and other elements
AnchorFrags ==
    { <<Elem("a", <<>>)>>,
      <<Elem("a", <<>>), Text(Str(<<"n", " ">>))>> }

\* the text after an anchor: one to four whitespace-separated tokens
MetaTexts ==
    { Str(<<" ", "-", " ">>),
      Str(<<"d", " ", "t">>),
      Str(<<" ", "d", " ", " ", "t", "\n", "s">>),
      Str(<<"d", " ", "t", " ", "s", " ", "e">>) }

AddListingPre ==
    \E dp \in 1..MaxListingNodes :
        Extend(<<Elem("pre", <<>>)>>, dp, {"#document", "div"}, MaxListingNodes)

AddDiv ==
    \E dp \in 1..MaxListingNodes :
        \/ Extend(<<Elem("div", <<>>)>>, dp, {"#document"}, MaxListingNodes)
        \/ Extend(<<Elem("span", <<>>)>>, dp, {"pre"}, MaxListingNodes)

AddListingAnchor ==
    \E dp \in 1..MaxListingNodes, frag \in AnchorFrags :
        Extend(frag, dp, {"pre", "span"}, MaxListingNodes)

AddListingHr ==
    \E dp \in 1..MaxListingNodes :
        Extend(<<Elem("hr", <<>>)>>, dp, {"pre", "span"}, MaxListingNodes)

\* html.Parse merges adjacent text, so a text node never follows another
AddMeta ==
    \E dp \in 1..MaxListingNodes, s \in MetaTexts :
        /\ ~(doc # <<>> /\ doc[Len(doc)].Type = TextNode
                        /\ doc[Len(doc)].depth = dp)
        /\ Extend(<<Text(s)>>, dp, {"pre"}, MaxListingNodes)

(* ---------------------------- operations ------------------------------- *)
\* a reader that fails delivers no document at all
DoParse ==
    /\ pc = "build"
    /\ \E readFails \in BOOLEAN :
          /\ readFails => doc = <<>>
          /\ LET r == Parse(doc, readFails)
             IN  /\ tables' = r.tables
                 /\ err' = r.err
    /\ pc' = "parsed"
    /\ UNCHANGED <<doc, listing, selVars, encVars, gridVars, mainVars>>

\* parseDirectoryListing called on the document directly
DoListing ==
    /\ pc = "build"
    /\ listing' = parseDirectoryListing(doc)
    /\ pc' = "listed"
    /\ UNCHANGED <<doc, tables, err, selVars, encVars, gridVars, mainVars>>

(* ---------------------------- selector inputs ----------------------- *)
SelChars == {Rune(c) : c \in {" ", ",", "0", "1", "-", "+", "a"}}

AddChar ==
    /\ pc = "build"
    /\ Len(selIn) < MaxSelLen
    /\ \E c \in SelChars : selIn' = Append(selIn, c)
    /\ UNCHANGED <<doc, pc, tables, err, listing, sel, selErr, out,
                 encVars, gridVars, mainVars>>

DoParseSelector ==
    /\ pc = "build"
    /\ LET r == ParseSelector(selIn)
       IN  /\ sel' = r.sel
           /\ selErr' = r.err
    /\ pc' = "selector"
    /\ UNCHANGED <<doc, tables, err, listing, selIn, out,
                 encVars, gridVars, mainVars>>

(* ---------------------------- table lists ------------------------------ *)
beta == Str(<<"b">>)
TableIndexes == {1, 2}
TableIDs == {<<>>, alpha}
TableNames == {<<>>, beta}
TableRows ==
    { << <<Str(<<"h">>)>> >>,
      << <<Str(<<"h">>)>>, <<Str(<<"r">>)>> >>,
      << <<Str(<<"h">>)>>, <<Str(<<"r">>)>>, <<Str(<<"s">>)>> >> }

SelectorIndexes == {1, 3}
SelectorNames == {<<>>, alpha, beta}

AddTableValue ==
    /\ pc = "build"
    /\ Len(tables) < MaxTables
    /\ \E i \in TableIndexes, id \in TableIDs, nm \in TableNames, rows \in TableRows :
          tables' = Append(tables, [Index |-> i, ID |-> id, Name |-> nm, Rows |-> rows])
    /\ UNCHANGED <<doc, pc, err, listing, selVars, encVars, gridVars, mainVars>>

\* Apply with a Selector built from its exported fields
DoApply ==
    /\ pc = "build"
    /\ \E ix \in SUBSET SelectorIndexes, nm \in SUBSET SelectorNames :
          /\ sel' = [Indexes |-> ix, Names |-> nm]
          /\ out' = Apply(sel', tables)
          /\ tables' = ApplyCall(sel', tables).arg
    /\ pc' = "applied"
    /\ UNCHANGED <<doc, err, listing, selIn, selErr,
                 encVars, gridVars, mainVars>>

DoSkipHeader ==
    /\ pc = "build"
    /\ out' = SkipHeader(tables)
    /\ tables' = SkipHeaderCall(tables).arg
    /\ pc' = "skipped"
    /\ UNCHANGED <<doc, err, listing, selIn, sel, selErr,
                 encVars, gridVars, mainVars>>

\* Inputs of Encode: table values built field by field
MaxEncSize == 7
EncFields ==
    { <<>>, Str(<<"a">>), Str(<<"b", ",">>), Str(<<" ">>),
      Str(<<"a", "\n", "\n", "b">>), Str(<<"\"", "\r">>) }
EncCommas == {CommaRune, Rune(";"), EAcute, NUL}

\* the tables, rows and fields of a table list, counted together; a field
\* of the buffer's order of length counts as four, a field with a line
\* feed or a quote as two
LongFieldsIn(row) == {k \in 1..Len(row) : 2 * Len(row[k]) > BufSize}

RECURSIVE rowsSize(_)
rowsSize(rows) ==
    IF rows = <<>> THEN 0
    ELSE 1 + Len(Head(rows)) + 3 * Cardinality(LongFieldsIn(Head(rows)))
           + Cardinality({k \in 1..Len(Head(rows)) :
                             \E j \in 1..Len(Head(rows)[k]) :
                                 Head(rows)[k][j] \in {LF, Quote}})
           + rowsSize(Tail(rows))

RECURSIVE EncSize(_)
EncSize(ts) ==
    IF ts = <<>> THEN 0 ELSE 1 + rowsSize(Head(ts).Rows) + EncSize(Tail(ts))

AddEncTable ==
    /\ pc = "build"
    /\ EncSize(tables) < MaxEncSize
    /\ tables' = Append(tables, [Index |-> Len(tables) + 1, ID |-> <<>>,
                                 Name |-> <<>>, Rows |-> <<>>])
    /\ UNCHANGED <<doc, pc, err, listing, selVars, encVars, gridVars, mainVars>>

AddEncRow ==
    /\ pc = "build"
    /\ tables # <<>>
    /\ EncSize(tables) < MaxEncSize
    /\ tables' = [tables EXCEPT ![Len(tables)].Rows = Append(@, <<>>)]
    /\ UNCHANGED <<doc, pc, err, listing, selVars, encVars, gridVars, mainVars>>

AddEncField ==
    /\ pc = "build"
    /\ tables # <<>>
    /\ tables[Len(tables)].Rows # <<>>
    /\ EncSize(tables) < MaxEncSize
    /\ \E f \in EncFields :
          tables' = [tables EXCEPT ![Len(tables)].Rows =
                        [@ EXCEPT ![Len(@)] = Append(@, f)]]
    /\ UNCHANGED <<doc, pc, err, listing, selVars, encVars, gridVars, mainVars>>

\* fields about as long as the writer's buffer: one byte more than it holds,
\* three bytes less (a delimiter of two bytes then finds fewer than
\* utf8.UTFMax bytes free), and one of two-byte runes with two bytes more
LongFields ==
    { [k \in 1..(BufSize + 1) |-> Rune("a")],
      [k \in 1..(BufSize - 3) |-> Rune("a")],
      [k \in 1..((BufSize \div 2) + 1) |-> EAcute] }

\* a long field as the first field of the list: the output can then exceed
\* the buffer, and a write reaches the destination inside Encode's loop
AddEncLongField ==
    /\ pc = "build"
    /\ Len(tables) = 1
    /\ tables[1].Rows = << <<>> >>
    /\ \E f \in LongFields : tables' = [tables EXCEPT ![1].Rows = << <<f>> >>]
    /\ UNCHANGED <<doc, pc, err, listing, selVars, encVars, gridVars, mainVars>>

\* Encode on a destination that accepts every write or fails every write
DoEncode ==
    /\ pc = "build"
    /\ \E c \in EncCommas, f \in BOOLEAN :
          LET r == Encode(c, f, ~f, tables)
          IN  /\ comma' = c
              /\ wfails' = f
              /\ written' = r.data
              /\ encErr' = r.err
    /\ pc' = "encoded"
    /\ UNCHANGED <<doc, tables, err, listing, selVars, gridVars, mainVars>>

\* Inputs of the grid passes: row lists built field by field
MaxGridSize == 7
GridFields == {<<>>, Str(<<" ">>), Str(<<"x">>)}

AddGridRow ==
    /\ pc = "build"
    /\ rowsSize(grid) < MaxGridSize
    /\ grid' = Append(grid, <<>>)
    /\ UNCHANGED <<doc, pc, tables, err, listing, selVars, encVars,
                   gridOut, gridAgain, mainVars>>

AddGridField ==
    /\ pc = "build"
    /\ grid # <<>>
    /\ rowsSize(grid) < MaxGridSize
    /\ \E f \in GridFields :
          grid' = [grid EXCEPT ![Len(grid)] = Append(@, f)]
    /\ UNCHANGED <<doc, pc, tables, err, listing, selVars, encVars,
                   gridOut, gridAgain, mainVars>>

\* trimEmptyColumns called on the row list directly
DoTrimEmptyColumns ==
    /\ pc = "build"
    /\ gridOut' = trimEmptyColumns(grid)
    /\ pc' = "trimmed"
    /\ UNCHANGED <<doc, tables, err, listing, selVars, encVars,
                   grid, gridAgain, mainVars>>

\* the three passes run on the row list
DoCleanRows ==
    /\ pc = "build"
    /\ gridOut' = cleanRows(grid)
    /\ pc' = "cleaned"
    /\ UNCHANGED <<doc, tables, err, listing, selVars, encVars,
                   grid, gridAgain, mainVars>>

\* the three passes run again on their own result
DoCleanRowsAgain ==
    /\ pc = "cleaned"
    /\ gridAgain' = cleanRows(gridOut)
    /\ pc' = "cleaned twice"
    /\ UNCHANGED <<doc, tables, err, listing, selVars, encVars,
                   grid, gridOut, mainVars>>

\* the flag defaults of main
DefaultOpts ==
    [delim |-> <<CommaRune>>, tables |-> <<>>, skipHeader |-> FALSE, tsv |-> FALSE,
     version |-> FALSE, nargs |-> 0, openFails |-> FALSE]

\* Inputs of main: a document of plain tables and a command line
MaxMainNodes == 6
OptDelims == {Str(<<",">>), Str(<<";">>), <<>>, Str(<<";", ";">>), <<RuneError>>}
OptSelectors == {<<>>, Str(<<"0">>), Str(<<"1">>)}

AddMainTable ==
    Extend(<<Elem("table", <<>>)>>, 1, {"#document"}, MaxMainNodes)

AddMainRow ==
    \E dp \in 1..MaxMainNodes :
        Extend(<<Elem("tr", <<>>)>>, dp, {"table"}, MaxMainNodes)

AddMainCell ==
    \E dp \in 1..MaxMainNodes :
        Extend(<<Elem("td", <<>>), Text(Str(<<"x">>))>>, dp, {"tr"}, MaxMainNodes)

\* faulty variant: the -T override is applied before -d is validated
chooseDelimiterTsvFirst(delim, tsv) ==
    IF tsv THEN [ok |-> TRUE, delimiter |-> Tab]
    ELSE IF Len(delim) # 1 THEN [ok |-> FALSE, delimiter |-> CommaRune]
    ELSE [ok |-> TRUE, delimiter |-> delim[1]]

\* main, the delimiter: -d must be one character, then -T replaces it by TAB
chooseDelimiter(delim, tsv) ==
    IF Len(delim) # 1 THEN [ok |-> FALSE, delimiter |-> CommaRune]
    ELSE [ok |-> TRUE, delimiter |-> IF tsv THEN Tab ELSE delim[1]]

\* main: the flags are parsed; --version prints one line and exits 0
MainFlags ==
    /\ pc = "build"
    /\ \E d \in OptDelims, t \in OptSelectors, h \in BOOLEAN, T \in BOOLEAN,
          v \in BOOLEAN, n \in 0..2, o \in BOOLEAN :
          /\ o => n = 1
          /\ opts' = [delim |-> d, tables |-> t, skipHeader |-> h, tsv |-> T,
                      version |-> v, nargs |-> n, openFails |-> o]
          /\ IF v
             THEN /\ written' = Utf8Str(Str(<<"v", "\n">>))
                  /\ exit' = "0"
                  /\ pc' = "exit_version"
             ELSE /\ pc' = "m_args"
                  /\ UNCHANGED <<written, exit>>
    /\ UNCHANGED <<doc, tables, err, listing, selVars, comma, wfails, encErr, gridVars>>

\* main: more than one argument is a usage error, a file that cannot be
\* opened is fatal
MainArgs ==
    /\ pc = "m_args"
    /\ IF opts.nargs > 1
       THEN exit' = "1" /\ pc' = "exit_usage"
       ELSE IF opts.nargs = 1 /\ opts.openFails
       THEN exit' = "1" /\ pc' = "exit_open"
       ELSE exit' = exit /\ pc' = "m_delim"
    /\ UNCHANGED <<doc, tables, err, listing, selVars, encVars, gridVars, opts>>

MainDelimiter ==
    /\ pc = "m_delim"
    /\ LET r == chooseDelimiter(opts.delim, opts.tsv)
       IN  IF ~r.ok
           THEN exit' = "1" /\ pc' = "exit_delim" /\ comma' = comma
           ELSE exit' = exit /\ pc' = "m_parse" /\ comma' = r.delimiter
    /\ UNCHANGED <<doc, tables, err, listing, selVars, wfails, written, encErr,
                   gridVars, opts>>

MainParse ==
    /\ pc = "m_parse"
    /\ \E readFails \in BOOLEAN :
          /\ readFails => doc = <<>>
          /\ LET r == Parse(doc, readFails)
             IN  /\ tables' = r.tables
                 /\ err' = r.err
                 /\ IF r.err # "nil"
                    THEN exit' = "1" /\ pc' = "exit_parse"
                    ELSE exit' = exit /\ pc' = "m_selector"
    /\ UNCHANGED <<doc, listing, selVars, encVars, gridVars, opts>>

\* main: the selector is parsed and applied to the tables Parse returned
MainSelector ==
    /\ pc = "m_selector"
    /\ LET r == ParseSelector(opts.tables)
       IN  /\ sel' = r.sel
           /\ selErr' = r.err
           /\ IF r.err # "nil"
              THEN /\ exit' = "1"
                   /\ pc' = "exit_selector"
                   /\ tables' = tables
              ELSE /\ exit' = exit
                   /\ pc' = "m_skip"
                   /\ tables' = Apply(r.sel, tables)
    /\ UNCHANGED <<doc, err, listing, selIn, out, encVars, gridVars, opts>>

MainSkipHeader ==
    /\ pc = "m_skip"
    /\ tables' = IF opts.skipHeader THEN SkipHeader(tables) ELSE tables
    /\ pc' = "m_encode"
    /\ UNCHANGED <<doc, err, listing, selVars, encVars, gridVars, mainVars>>

\* main: the tables are encoded to standard output
MainEncode ==
    /\ pc = "m_encode"
    /\ \E f \in BOOLEAN :
          LET r == Encode(comma, f, TRUE, tables)
          IN  /\ wfails' = f
              /\ written' = r.data
              /\ encErr' = r.err
              /\ IF r.err # "nil"
                 THEN exit' = "1" /\ pc' = "exit_encode"
                 ELSE exit' = "0" /\ pc' = "exit_ok"
    /\ UNCHANGED <<doc, tables, err, listing, selVars, comma, gridVars, opts>>

Init ==
    /\ doc = <<>>
    /\ pc = "build"
    /\ tables = <<>>
    /\ err = "nil"
    /\ listing = [t |-> NoTable, ok |-> FALSE]
    /\ selIn = <<>>
    /\ sel = EmptySelector
    /\ selErr = "nil"
    /\ out = <<>>
    /\ comma = CommaRune
    /\ wfails = FALSE
    /\ written = <<>>
    /\ encErr = "nil"
    /\ grid = <<>>
    /\ gridOut = <<>>
    /\ gridAgain = <<>>
    /\ opts = DefaultOpts
    /\ exit = "running"

Next ==
    \/ AddTable
    \/ AddRow
    \/ AddCell
    \/ DoParse

Spec == Init /\ [][Next]_vars

NextFallback ==
    \/ AddTopTable
    \/ AddTopRow
    \/ AddPlainCell
    \/ AddPre
    \/ AddAnchor
    \/ AddHr
    \/ DoParse

FallbackSpec == Init /\ [][NextFallback]_vars

NextListing ==
    \/ AddListingPre
    \/ AddDiv
    \/ AddListingAnchor
    \/ AddListingHr
    \/ AddMeta
    \/ DoListing

ListingSpec == Init /\ [][NextListing]_vars

NextSelector ==
    \/ AddChar
    \/ DoParseSelector

SelectorSpec == Init /\ [][NextSelector]_vars

NextApply ==
    \/ AddTableValue
    \/ DoApply
    \/ DoSkipHeader

ApplySpec == Init /\ [][NextApply]_vars

NextEncode ==
    \/ AddEncTable
    \/ AddEncRow
    \/ AddEncField
    \/ AddEncLongField
    \/ DoEncode

EncodeSpec == Init /\ [][NextEncode]_vars

NextGrid ==
    \/ AddGridRow
    \/ AddGridField
    \/ DoTrimEmptyColumns
    \/ DoCleanRows
    \/ DoCleanRowsAgain

GridSpec == Init /\ [][NextGrid]_vars

NextMain ==
    \/ AddMainTable
    \/ AddMainRow
    \/ AddMainCell
    \/ MainFlags
    \/ MainArgs
    \/ MainDelimiter
    \/ MainParse
    \/ MainSelector
    \/ MainSkipHeader
    \/ MainEncode

MainSpec == Init /\ [][NextMain]_vars

MainPcs ==
    {"m_args", "m_delim", "m_parse", "m_selector", "m_skip", "m_encode",
     "exit_version", "exit_usage", "exit_open", "exit_delim", "exit_parse",
     "exit_selector", "exit_encode", "exit_ok"}

TypeOK ==
    pc \in {"build", "parsed", "listed", "selector", "applied", "skipped", "encoded",
            "trimmed", "cleaned", "cleaned twice"}
              \cup MainPcs

(* ---------------------------- properties ------------------------------- *)
Parsed == pc = "parsed" /\ err = "nil"

NodeIds(d) == [i \in 1..Len(d) |-> i]

\* the <table> elements of the document that yield a non-empty grid
KeptTables(d) ==
    SelectSeq(NodeIds(d),
              LAMBDA n : IsElement(d, n, "table") /\ extractRows(d, n) # <<>>)

\* 1-based position of node n among the <table> elements in pre-order
TablePosition(d, n) == Cardinality({j \in 1..n : IsElement(d, j, "table")})

Ragged(rows) == \E i, j \in 1..Len(rows) : Len(rows[i]) # Len(rows[j])

\* C1: every table record built from a <table> element is rectangular:
\* all of its rows have the same number of fields.
C1_Rectangular ==
    Parsed => \A k \in 1..Len(tables) : ~Ragged(tables[k].Rows)

\* a table with ragged raw rows was parsed and kept at least two rows
C1_Witness ==
    /\ Parsed
    /\ \E k \in 1..Len(tables) : Len(tables[k].Rows) >= 2
    /\ \E n \in 1..Len(doc) :
          /\ IsElement(doc, n, "table")
          /\ Ragged(dropEmptyRows(rawRows(doc, n)))

\* C3: the records of the table elements carry, in order, the 1-based
\* pre-order positions of their elements among all table elements; the
\* indices are positive and strictly increasing.
C3_IndexIsPosition ==
    Parsed =>
        LET kept == KeptTables(doc)
        IN  kept # <<>> =>
              /\ Len(tables) = Len(kept)
              /\ \A k \in 1..Len(kept) :
                    /\ tables[k].Index = TablePosition(doc, kept[k])
                    /\ tables[k].Index >= 1
              /\ \A k \in 1..(Len(tables) - 1) :
                    tables[k].Index < tables[k + 1].Index

\* the first table element is discarded and the second one gets index 2
C3_Witness ==
    /\ Parsed
    /\ Len(tables) = 1
    /\ tables[1].Index = 2
    /\ IsElement(doc, 1, "table")
    /\ extractRows(doc, 1) = <<>>

\* C5: no returned table has zero rows; a table element with an empty grid
\* yields no record, and a document without tables gives the empty list and
\* no error.
C5_NoEmptyTable ==
    pc = "parsed" =>
        /\ \A k \in 1..Len(tables) : Len(tables[k].Rows) > 0
        /\ (doc # <<>> /\ KeptTables(doc) = <<>>
                /\ ~parseDirectoryListing(doc).ok)
              => (tables = <<>> /\ err = "nil")

\* a table element whose cells are all blank was parsed and dropped
C5_Witness ==
    /\ Parsed
    /\ tables = <<>>
    /\ \E n \in 1..Len(doc) :
          /\ IsElement(doc, n, "table")
          /\ rawRows(doc, n) # <<>>

\* C4: the fallback runs only when the locator found nothing: with a kept
\* table element the result holds the table elements' records only; with
\* none and a qualifying listing it is the one table 1 / "" / "directory".
C4_FallbackOnlyWhenNoTables ==
    Parsed =>
        LET kept == KeptTables(doc)
            dir == parseDirectoryListing(doc)
        IN  /\ kept # <<>> =>
                  /\ Len(tables) = Len(kept)
                  /\ \A k \in 1..Len(kept) :
                        /\ tables[k].Rows = extractRows(doc, kept[k])
                        /\ tables[k].ID = attrVal(NodeAttr(doc, kept[k]), "id", <<>>)
            /\ (kept = <<>> /\ dir.ok) =>
                  /\ Len(tables) = 1
                  /\ tables[1].Index = 1
                  /\ tables[1].ID = <<>>
                  /\ tables[1].Name = directory

\* a document with a qualifying listing and a table with rows was parsed
C4_Witness ==
    /\ Parsed
    /\ parseDirectoryListing(doc).ok
    /\ KeptTables(doc) # <<>>
    /\ tables # <<>>

\* a discarded table element advanced the counter before the fallback ran
C4_FallbackAfterDiscard ==
    /\ Parsed
    /\ \E n \in 1..Len(doc) : IsElement(doc, n, "table")
    /\ Len(tables) = 1
    /\ tables[1].Name = directory


\* C2: when parseDirectoryListing succeeds, every data row has as many
\* fields as the header row.
C2_ListingRectangular ==
    (pc = "listed" /\ listing.ok) =>
        \A i \in 1..Len(listing.t.Rows) :
            Len(listing.t.Rows[i]) = Len(listing.t.Rows[1])


\* the inclusion rule of the selector as the specification words it
Matches(s, t) ==
    \/ t.Index \in s.Indexes
    \/ t.ID # <<>> /\ t.ID \in s.Names
    \/ t.Name # <<>> /\ t.Name \in s.Names

NonEmptySelector(s) == s.Indexes # {} \/ s.Names # {}

\* C6: for a non-empty selector, Apply includes a table if and only if its
\* Index is in the index set, or its non-empty ID or non-empty Name is in
\* the name set.
C6_ApplyIffMatches ==
    (pc = "applied" /\ NonEmptySelector(sel)) =>
        out = SelectSeq(tables, LAMBDA t : Matches(sel, t))

RECURSIVE IsSubsequence(_, _)
IsSubsequence(a, b) ==
    IF a = <<>> THEN TRUE
    ELSE IF b = <<>> THEN FALSE
    ELSE IF Head(a) = Head(b) /\ IsSubsequence(Tail(a), Tail(b)) THEN TRUE
    ELSE IsSubsequence(a, Tail(b))

\* C7: the result of Apply is a subsequence of its input: unchanged tables,
\* in their original order, each input table at most once.
C7_ApplySubsequence ==
    pc = "applied" => IsSubsequence(out, tables)

\* two tables were selected and the first matches by index, id and name
C7_Witness ==
    /\ pc = "applied"
    /\ NonEmptySelector(sel)
    /\ Len(tables) = 2
    /\ out = tables
    /\ tables[1].Index \in sel.Indexes
    /\ tables[1].ID # <<>> /\ tables[1].ID \in sel.Names
    /\ tables[1].Name # <<>> /\ tables[1].Name \in sel.Names

\* C8: an empty selector is the identity filter.
C8_EmptySelectorIdentity ==
    (pc = "applied" /\ ~NonEmptySelector(sel)) => out = tables

\* the empty selector was applied to a list of two tables
C8_Witness ==
    /\ pc = "applied"
    /\ ~NonEmptySelector(sel)
    /\ Len(tables) = 2
    /\ Len(out) = 2

\* the trimmed parts of a selector expression
Parts(s) == [k \in 1..Len(SplitComma(s)) |-> TrimSpace(SplitComma(s)[k])]

IsIndexPart(p) == Atoi(p).ok /\ Atoi(p).val >= 1
IsBadPart(p) == Atoi(p).ok /\ Atoi(p).val <= 0
IsNamePart(p) == p # <<>> /\ ~Atoi(p).ok

\* C9: ParseSelector fails exactly when some trimmed part is an integer
\* <= 0; blank input gives the empty selector; on success the index set
\* holds the integer parts, the name set the other non-empty parts, and
\* never the empty string.
C9_ParseSelector ==
    pc = "selector" =>
        LET ps == Parts(selIn)
        IN  /\ (selErr # "nil") <=> (\E k \in 1..Len(ps) : IsBadPart(ps[k]))
            /\ (\A k \in 1..Len(ps) : ps[k] = <<>>) =>
                  (selErr = "nil" /\ sel = EmptySelector)
            /\ selErr = "nil" =>
                  /\ sel.Indexes =
                        {Atoi(ps[k]).val : k \in {j \in 1..Len(ps) : IsIndexPart(ps[j])}}
                  /\ sel.Names = {ps[k] : k \in {j \in 1..Len(ps) : IsNamePart(ps[j])}}
                  /\ <<>> \notin sel.Names

\* an expression with a name before a zero index was rejected
C9_Witness ==
    /\ pc = "selector"
    /\ selErr # "nil"
    /\ Len(Parts(selIn)) >= 2
    /\ IsNamePart(Parts(selIn)[1])
    /\ IsBadPart(Parts(selIn)[2])

\* the input tables with more than one row, in order
Survivors(ts) == SelectSeq(ts, LAMBDA t : Len(t.Rows) > 1)

\* C10: SkipHeader drops the tables with at most one row; each other table
\* keeps its place, Index, ID and Name and loses exactly its first row, so
\* every result table has at least one row.
C10_SkipHeader ==
    pc = "skipped" =>
        LET sv == Survivors(tables)
        IN  /\ Len(out) = Len(sv)
            /\ \A k \in 1..Len(out) :
                  /\ out[k].Index = sv[k].Index
                  /\ out[k].ID = sv[k].ID
                  /\ out[k].Name = sv[k].Name
                  /\ Len(out[k].Rows) = Len(sv[k].Rows) - 1
                  /\ Len(out[k].Rows) >= 1
                  /\ \A r \in 1..Len(out[k].Rows) :
                        out[k].Rows[r] = sv[k].Rows[r + 1]

\* a header-only table was dropped and a three-row table kept its two rows
C10_Witness ==
    /\ pc = "skipped"
    /\ Len(tables) = 2
    /\ Len(tables[1].Rows) = 1
    /\ Len(tables[2].Rows) = 3
    /\ Len(out) = 1
    /\ Len(out[1].Rows) = 2

\* C11: when every Write of the destination fails, Encode of a non-empty
\* table list returns a non-nil error, whatever the size of the output.
C11_WriteFailurePropagates ==
    (pc = "encoded" /\ wfails /\ tables # <<>>) => encErr # "nil"

\* Auxiliary to C11: the failure is returned once the output exceeds the
\* buffer, because a write inside the loop then reaches the destination.
C11_FailureSeenBeyondBuffer ==
    (pc = "encoded" /\ wfails /\ Len(Encode(comma, FALSE, TRUE, tables).data) > BufSize)
        => encErr # "nil"

\* Auxiliary to C11: a state where the output exceeds the buffer and the
\* failure of the destination is returned.
C11_WitnessBeyondBuffer ==
    /\ pc = "encoded"
    /\ wfails
    /\ validDelim(comma)
    /\ Len(Encode(comma, FALSE, TRUE, tables).data) > BufSize
    /\ encErr = "write failed"

\* Auxiliary to C11: the buffer counts bytes. A single field of 2049 runes
\* of two bytes each is 4098 bytes, more than the buffer holds, and the
\* failure of the destination is returned.
C11_WitnessTwoByteRunes ==
    /\ pc = "encoded"
    /\ wfails
    /\ comma = CommaRune
    /\ Len(tables) = 1
    /\ tables[1].Rows = << << [k \in 1..((BufSize \div 2) + 1) |-> EAcute] >> >>
    /\ encErr = "write failed"

\* Auxiliary to C11: a delimiter of two bytes is written after a flush when
\* fewer than four bytes of the buffer are free, so a first field of 4093
\* bytes followed by an empty field returns the failure.
C11_WitnessRuneFlush ==
    /\ pc = "encoded"
    /\ wfails
    /\ comma = EAcute
    /\ Len(tables) = 1
    /\ tables[1].Rows = << << [k \in 1..(BufSize - 3) |-> Rune("a")], <<>> >> >>
    /\ encErr = "write failed"

\* the text of a quoted field between its quotes: a quote is doubled
RECURSIVE quotedBody(_)
quotedBody(field) ==
    IF Len(field) = 0 THEN <<>>
    ELSE IF Len(field) = 1
         THEN (IF field[1] = Quote THEN <<Quote, Quote>> ELSE field)
    ELSE LET h == Len(field) \div 2
         IN  quotedBody(SubSeq(field, 1, h)) \o quotedBody(SubSeq(field, h + 1, Len(field)))

\* one field as it stands in a CSV line: quoted when it holds the delimiter,
\* a quote, a line break or a leading space
csvField(f, delim) ==
    IF fieldNeedsQuotes(f, delim) THEN <<Quote>> \o quotedBody(f) \o <<Quote>> ELSE f

\* the fields of a row joined by the delimiter
RECURSIVE csvLine(_, _)
csvLine(row, delim) ==
    IF row = <<>> THEN <<>>
    ELSE IF Len(row) = 1 THEN csvField(row[1], delim)
    ELSE csvField(row[1], delim) \o <<delim>> \o csvLine(Tail(row), delim)

RECURSIVE csvLines(_, _)
csvLines(rows, delim) ==
    IF rows = <<>> THEN <<>>
    ELSE csvLine(Head(rows), delim) \o <<LF>> \o csvLines(Tail(rows), delim)

\* every table's lines in list order, each table followed by one empty line
RECURSIVE ExpectedCSV(_, _)
ExpectedCSV(ts, delim) ==
    IF ts = <<>> THEN <<>>
    ELSE csvLines(Head(ts).Rows, delim) \o <<LF>> \o ExpectedCSV(Tail(ts), delim)

\* the number of empty lines of an output, given in bytes
BlankLines(s) ==
    Cardinality({i \in 1..Len(s) : s[i] = LF /\ (i = 1 \/ s[i - 1] = LF)})

\* a row whose record is itself an empty line: no field, or one empty field
IsBlankRecord(row) == row = <<>> \/ row = << <<>> >>

NoBlankRecord(ts) ==
    \A i \in 1..Len(ts) : \A j \in 1..Len(ts[i].Rows) : ~IsBlankRecord(ts[i].Rows[j])

\* the number of rows whose record is an empty line
BlankRecords(ts) ==
    Cardinality({p \in (1..Len(ts)) \X (1..MaxEncSize + 1) :
                    /\ p[2] <= Len(ts[p[1]].Rows)
                    /\ IsBlankRecord(ts[p[1]].Rows[p[2]])})

\* the number of line feeds of a field that follow a line feed
EmptyLinesIn(f) == Cardinality({k \in 2..Len(f) : f[k] = LF /\ f[k - 1] = LF})

RECURSIVE EmptyLinesInRow(_)
EmptyLinesInRow(row) ==
    IF row = <<>> THEN 0 ELSE EmptyLinesIn(Head(row)) + EmptyLinesInRow(Tail(row))

RECURSIVE EmptyLinesInRows(_)
EmptyLinesInRows(rows) ==
    IF rows = <<>> THEN 0
    ELSE EmptyLinesInRow(Head(rows)) + EmptyLinesInRows(Tail(rows))

\* the number of empty lines inside the fields of a table list
RECURSIVE EmbeddedEmptyLines(_)
EmbeddedEmptyLines(ts) ==
    IF ts = <<>> THEN 0
    ELSE EmptyLinesInRows(Head(ts).Rows) + EmbeddedEmptyLines(Tail(ts))

HasRow(ts) == \E i \in 1..Len(ts) : ts[i].Rows # <<>>

Encoded == pc = "encoded" /\ ~wfails

\* C12 (as stated): Encode writes the tables in list order, one record per
\* row with the fields as given, one empty record after every table, the
\* last included, and N tables produce N blank lines.
C12_BlankLinePerTable ==
    Encoded =>
        /\ written = Utf8Str(ExpectedCSV(tables, comma))
        /\ BlankLines(written) = Len(tables)

\* C12 (amended): with a delimiter csv accepts, Encode returns nil and
\* writes the tables in list order, one record per row with the fields as
\* given, one empty record after every table, the last included; the blank
\* lines of the output are one per table, one per row that is empty or a
\* single empty field, and one per line feed of a field that follows a line
\* feed, so N tables produce N blank lines exactly when there is no such
\* row and no such line feed. With a delimiter csv rejects nothing is
\* written, and Encode returns the error exactly when some table has a row.
C12_EncodeShape ==
    Encoded =>
        IF validDelim(comma)
        THEN /\ encErr = "nil"
             /\ written = Utf8Str(ExpectedCSV(tables, comma))
             /\ BlankLines(written) =
                    Len(tables) + BlankRecords(tables) + EmbeddedEmptyLines(tables)
             /\ BlankLines(written) = Len(tables)
                    <=> (NoBlankRecord(tables) /\ EmbeddedEmptyLines(tables) = 0)
        ELSE /\ written = <<>>
             /\ encErr = "csv: invalid field or comment delimiter" <=> HasRow(tables)
             /\ encErr = "nil" <=> ~HasRow(tables)

\* C12 witness: rows [[a,a]] and [[a]] encoded with the comma give
\* "a,a\n\na\n\n", two tables and two blank lines.
C12_Witness ==
    /\ Encoded
    /\ comma = CommaRune
    /\ Len(tables) = 2
    /\ tables[1].Rows = << << Str(<<"a">>), Str(<<"a">>) >> >>
    /\ tables[2].Rows = << << Str(<<"a">>) >> >>
    /\ written = Utf8Str(Str(<<"a", ",", "a", "\n", "\n", "a", "\n", "\n">>))
    /\ BlankLines(written) = 2

\* Auxiliary to C12: a field with an empty line inside, "a\n\nb", is written
\* in quotes with its line feeds as they are: one table, two blank lines.
C12_WitnessEmptyLineInField ==
    /\ Encoded
    /\ comma = CommaRune
    /\ Len(tables) = 1
    /\ tables[1].Rows = << << Str(<<"a", "\n", "\n", "b">>) >> >>
    /\ written = Utf8Str(Str(<<"\"", "a", "\n", "\n", "b", "\"", "\n", "\n">>))
    /\ BlankLines(written) = 2

\* Auxiliary to C12: a field of a quote and a carriage return is written in
\* quotes with the quote doubled and the carriage return as it is.
C12_WitnessQuoteInField ==
    /\ Encoded
    /\ comma = CommaRune
    /\ Len(tables) = 1
    /\ tables[1].Rows = << << Str(<<"\"", "\r">>) >> >>
    /\ written = Utf8Str(Str(<<"\"", "\"", "\"", "\r", "\"", "\n", "\n">>))

\* Auxiliary to C12: the zero delimiter with a table of one row: the csv
\* error is returned and nothing is written.
C12_WitnessRejectedDelimiter ==
    /\ Encoded
    /\ comma = NUL
    /\ HasRow(tables)
    /\ written = <<>>
    /\ encErr = "csv: invalid field or comment delimiter"

\* the positions of main that lie after the call of htmltable.Parse
AfterParse ==
    {"m_selector", "m_skip", "m_encode", "exit_parse", "exit_selector",
     "exit_encode", "exit_ok"}

\* the positions of main that lie after the delimiter was chosen
AfterDelimiter == AfterParse \cup {"m_parse"}

\* a conversion run of main whose -t value ParseSelector rejects
InvalidSelectorRun ==
    /\ pc \in MainPcs
    /\ ~opts.version
    /\ ParseSelector(opts.tables).err # "nil"

\* C13: in a run of main with an invalid selector, htmltable.Parse is never
\* reached before the selector error is raised, and nothing is written to
\* standard output.
C13_SelectorErrorBeforeParse ==
    InvalidSelectorRun => (pc \notin AfterParse /\ written = <<>>)

\* Auxiliary to C13: a run with an invalid selector writes nothing to
\* standard output and ends with exit status 1.
C13_NoOutputOnSelectorError ==
    InvalidSelectorRun =>
        /\ written = <<>>
        /\ pc \notin {"m_skip", "m_encode", "exit_encode", "exit_ok"}
        /\ exit # "0"

\* C14 (as stated): with -T the delimiter handed to the encoder is TAB
\* whatever -d is, a -d that is not one character included; without -T a -d
\* that is not one character ends the process with status 1 before parsing.
C14_TsvOverridesAnyDelimiter ==
    /\ (opts.tsv /\ pc \in MainPcs) => pc # "exit_delim"
    /\ (opts.tsv /\ pc \in AfterDelimiter) => comma = Tab
    /\ (~opts.tsv /\ Len(opts.delim) # 1 /\ pc \in MainPcs) => pc \notin AfterDelimiter
    /\ pc = "exit_delim" => exit = "1"

\* C14 (amended): with -T and a one-character -d the delimiter handed to the
\* encoder is TAB whatever the character; a -d that is not exactly one
\* character ends the process with status 1 before the document is parsed,
\* with or without -T.
C14_TsvOverridesValidDelimiter ==
    /\ (opts.tsv /\ pc \in AfterDelimiter) => comma = Tab
    /\ (~opts.tsv /\ pc \in AfterDelimiter) => comma = opts.delim[1]
    /\ (Len(opts.delim) # 1 /\ pc \in MainPcs) => pc \notin AfterDelimiter
    /\ pc = "exit_delim" => (exit = "1" /\ Len(opts.delim) # 1 /\ written = <<>>)
    /\ (pc = "exit_ok" /\ ~wfails) => written = Utf8Str(ExpectedCSV(tables, comma))

\* C14 witness: -T with -d ";" on a table of one two-cell row writes the
\* row with a TAB between the fields.
C14_Witness ==
    /\ pc = "exit_ok"
    /\ opts.tsv
    /\ opts.delim = Str(<<";">>)
    /\ comma = Tab
    /\ written = Utf8Str(Str(<<"x", "\t", "x", "\n", "\n">>))

\* C14 witness of the rejected -d: -T with a two-character -d exits 1.
C14_WitnessRejected ==
    pc = "exit_delim" /\ opts.tsv /\ opts.delim = Str(<<";", ";">>) /\ exit = "1"

\* the columns of a row list that hold a non-whitespace value in some row
KeptColumns(rows) ==
    {c \in 1..MaxLen(rows) :
        \E i \in 1..Len(rows) : c <= Len(rows[i]) /\ ~IsBlank(rows[i][c])}

\* the place of column c among the kept columns
ColumnRank(rows, c) == Cardinality({k \in KeptColumns(rows) : k <= c})

\* C15: trimEmptyColumns on a non-empty, possibly ragged row list keeps
\* exactly the columns that are non-blank in some row, in their order, keeps
\* the rows and their order, and gives every row one field per kept column,
\* "" where the row had no cell.
C15_TrimEmptyColumns ==
    (pc = "trimmed" /\ grid # <<>>) =>
        /\ Len(gridOut) = Len(grid)
        /\ \A i \in 1..Len(grid) :
              /\ Len(gridOut[i]) = Cardinality(KeptColumns(grid))
              /\ \A c \in KeptColumns(grid) :
                    gridOut[i][ColumnRank(grid, c)] =
                        IF c <= Len(grid[i]) THEN grid[i][c] ELSE <<>>

\* C15 witness: a ragged list whose first column is empty in every row
\* loses that column, and the short row gets "" for the missing cell.
C15_Witness ==
    /\ pc = "trimmed"
    /\ grid = << << <<>>, Str(<<"x">>), Str(<<"x">>) >>, << <<>>, Str(<<"x">>) >> >>
    /\ gridOut = << << Str(<<"x">>), Str(<<"x">>) >>, << Str(<<"x">>), <<>> >> >>

\* a grid without blank rows and without blank columns
Dense(rows) ==
    /\ \A i \in 1..Len(rows) : \E k \in 1..Len(rows[i]) : ~IsBlank(rows[i][k])
    /\ \A c \in 1..MaxLen(rows) :
          \E i \in 1..Len(rows) : c <= Len(rows[i]) /\ ~IsBlank(rows[i][c])

\* the <table> elements of the document
TableNodes(d) == {n \in 1..Len(d) : IsElement(d, n, "table")}

\* C16: the grid of every table Parse extracts from a <table> element is
\* dense: every row and every column holds a non-whitespace field.
C16_DenseGrid ==
    Parsed => \A i \in 1..Len(tables) : Dense(tables[i].Rows)

\* C16 witness: a table whose raw rows hold a blank row and a blank column
\* is stored without them.
C16_Witness ==
    /\ Parsed
    /\ tables # <<>>
    /\ \E n \in TableNodes(doc) :
          /\ extractRows(doc, n) # <<>>
          /\ Len(extractRows(doc, n)) < Len(rawRows(doc, n))
          /\ MaxLen(extractRows(doc, n)) < MaxLen(rawRows(doc, n))
          /\ \E i \in 1..Len(tables) : tables[i].Rows = extractRows(doc, n)

\* C17: the three passes are idempotent: a rectangular dense grid comes back
\* unchanged, and running them twice on any raw row list gives what running
\* them once gives.
C17_Idempotent ==
    /\ (pc \in {"cleaned", "cleaned twice"} /\ ~Ragged(grid) /\ Dense(grid))
           => gridOut = grid
    /\ pc = "cleaned twice" => gridAgain = gridOut

\* C17 witness: a raw list the passes change (a blank column, a blank row
\* and a short row) is left alone by the second run.
C17_Witness ==
    /\ pc = "cleaned twice"
    /\ gridOut # <<>>
    /\ Len(gridOut) < Len(grid)
    /\ MaxLen(gridOut) < MaxLen(grid)
    /\ Ragged(grid)
    /\ gridAgain = gridOut

\* C17 witness of the dense case: a rectangular dense grid of two rows and
\* two columns with a blank field comes back unchanged.
C17_WitnessDense ==
    /\ pc = "cleaned"
    /\ Len(grid) = 2
    /\ ~Ragged(grid)
    /\ Dense(grid)
    /\ \E i \in 1..2 : \E k \in 1..Len(grid[i]) : IsBlank(grid[i][k])
    /\ gridOut = grid

\* the nodes of n's subtree, n excluded
Descendants(d, n) == (n + 1)..(SubtreeEnd(d, n) - 1)

\* the direct children of n
Children(d, n) == {j \in Descendants(d, n) : d[j].depth = NodeDepth(d, n) + 1}

\* the first <pre> of the document in document order (Nil when none)
FirstPre(d) ==
    LET pres == {j \in 1..Len(d) : IsElement(d, j, "pre")}
    IN  IF pres = {} THEN Nil ELSE CHOOSE j \in pres : \A k \in pres : j <= k

\* the first <hr> among the direct children of p (Nil when none)
FirstHr(d, p) ==
    LET hrs == {j \in Children(d, p) : IsElement(d, j, "hr")}
    IN  IF hrs = {} THEN Nil ELSE CHOOSE j \in hrs : \A k \in hrs : j <= k

\* the <a> children of p before its first <hr>; all of them without an <hr>
HeaderAnchors(d, p) ==
    {j \in Children(d, p) :
        IsElement(d, j, "a") /\ (FirstHr(d, p) = Nil \/ j < FirstHr(d, p))}

\* the <a> children of p after its first <hr>
DataAnchors(d, p) ==
    {j \in Children(d, p) :
        IsElement(d, j, "a") /\ FirstHr(d, p) # Nil /\ j > FirstHr(d, p)}

\* a <pre> with a header anchor before its first <hr> and a data anchor after
Qualifies(d, p) == HeaderAnchors(d, p) # {} /\ DataAnchors(d, p) # {}

\* C18: parseDirectoryListing succeeds exactly when the first <pre> in
\* document order exists and has, among its direct children, an <a> before
\* its first <hr> and an <a> after it; otherwise it returns no table, and a
\* later <pre> is never consulted.
C18_ListingSucceedsIff ==
    pc = "listed" =>
        /\ listing.ok <=> (FirstPre(doc) # Nil /\ Qualifies(doc, FirstPre(doc)))
        /\ ~listing.ok => listing.t = NoTable

\* C18 witness: the first <pre> has no data anchor, a later <pre> would
\* qualify, and no table is returned.
C18_Witness ==
    /\ pc = "listed"
    /\ ~listing.ok
    /\ FirstPre(doc) # Nil
    /\ ~Qualifies(doc, FirstPre(doc))
    /\ \E p \in 1..Len(doc) :
          IsElement(doc, p, "pre") /\ p > FirstPre(doc) /\ Qualifies(doc, p)

\* C18 witness of success: the first <pre> qualifies and a table is returned.
C18_WitnessOk ==
    /\ pc = "listed"
    /\ listing.ok
    /\ Qualifies(doc, FirstPre(doc))
    /\ Len(listing.t.Rows) >= 2

\* the members of a set of nodes in document order
InOrder(d, S) == SelectSeq(NodeIds(d), LAMBDA j : j \in S)

\* the whitespace-separated tokens of the text node right after anchor n
MetaTokens(d, n) ==
    LET s == NextSibling(d, n)
    IN  IF s # Nil /\ NodeType(d, s) = TextNode THEN Fields(NodeData(d, s))
        ELSE <<>>

\* the fields a data anchor contributes before padding
AnchorFields(d, n) ==
    LET name == TrimSpace(textContent(d, n))
        toks == MetaTokens(d, n)
    IN  IF Len(toks) <= 1 THEN <<name>>
        ELSE IF Len(toks) = 2 THEN <<name, toks[1] \o <<Space>> \o toks[2]>>
        ELSE <<name, toks[1] \o <<Space>> \o toks[2], toks[3]>>

\* C19: in the fallback table every data anchor yields one row, in anchor
\* order: the trimmed anchor text, then token1 + " " + token2 when the text
\* node right after it has two tokens or more, then token3 when it has three
\* or more; the row is then padded with "" up to the header width.
C19_AnchorRows ==
    (pc = "listed" /\ listing.ok) =>
        LET anchors == InOrder(doc, DataAnchors(doc, FirstPre(doc)))
            header == listing.t.Rows[1]
        IN  /\ Len(listing.t.Rows) = 1 + Len(anchors)
            /\ \A j \in 1..Len(anchors) :
                  LET row == listing.t.Rows[j + 1]
                      own == AnchorFields(doc, anchors[j])
                  IN  /\ Len(row) = IF Len(own) >= Len(header)
                                    THEN Len(own) ELSE Len(header)
                      /\ \A k \in 1..Len(row) :
                            row[k] = IF k <= Len(own) THEN own[k] ELSE <<>>

\* C19 witness: an anchor followed by four tokens yields the name, the
\* first two tokens joined by a space and the third token.
C19_Witness ==
    /\ pc = "listed"
    /\ listing.ok
    /\ \E n \in DataAnchors(doc, FirstPre(doc)) :
          /\ Len(MetaTokens(doc, n)) = 4
          /\ \E j \in 2..Len(listing.t.Rows) :
                /\ Len(listing.t.Rows[j]) = 3
                /\ listing.t.Rows[j][2] = Str(<<"d", " ", "t">>)
                /\ listing.t.Rows[j][3] = Str(<<"s">>)

\* C19 witness of padding: "-" after the anchor gives the name and "".
C19_WitnessPadded ==
    /\ pc = "listed"
    /\ listing.ok
    /\ Len(listing.t.Rows[1]) = 2
    /\ \E n \in DataAnchors(doc, FirstPre(doc)) :
          /\ MetaTokens(doc, n) = << Str(<<"-">>) >>
          /\ \E j \in 2..Len(listing.t.Rows) :
                listing.t.Rows[j] = <<TrimSpace(textContent(doc, n)), <<>>>>

\* the <tr> elements of n's subtree
TrNodes(d, n) == {j \in Descendants(d, n) : IsElement(d, j, "tr")}

\* the <td>/<th> children of a <tr>
CellNodes(d, r) ==
    {c \in Children(d, r) : IsElement(d, c, "td") \/ IsElement(d, c, "th")}

\* the trimmed text of each cell of a <tr>, in document order
CellTexts(d, r) ==
    LET cells == InOrder(d, CellNodes(d, r))
    IN  [k \in 1..Len(cells) |-> TrimSpace(textContent(d, cells[k]))]

\* the <table> elements inside the subtree of table n
NestedTables(d, n) == {m \in Descendants(d, n) : IsElement(d, m, "table")}

\* C20 (as stated): a table nested in a cell is its own table record with
\* a later index than the enclosing table's, and the enclosing table's raw
\* rows are exactly one row per <tr> of its subtree, the nested ones included.
C20_NestedOneRowPerTr ==
    Parsed =>
        \A n \in TableNodes(doc) :
            /\ Len(rawRows(doc, n)) = Cardinality(TrNodes(doc, n))
            /\ \A m \in NestedTables(doc, n) :
                  /\ TablePosition(doc, m) > TablePosition(doc, n)
                  /\ \E i \in 1..Len(tables) : tables[i].Index = TablePosition(doc, m)

\* C20 (amended): the enclosing table's raw rows are one row per <tr> of its
\* subtree that has at least one <td>/<th> child, in document order, the
\* nested table's rows included; the nested table takes the next index in
\* document order, greater than the enclosing table's, and is its own
\* record when its grid is not empty.
C20_NestedRowsAndIndex ==
    Parsed =>
        \A n \in TableNodes(doc) :
            /\ LET trs == InOrder(doc, {r \in TrNodes(doc, n) : CellNodes(doc, r) # {}})
               IN  /\ Len(rawRows(doc, n)) = Len(trs)
                   /\ \A k \in 1..Len(trs) : rawRows(doc, n)[k] = CellTexts(doc, trs[k])
            /\ \A m \in NestedTables(doc, n) :
                  /\ TablePosition(doc, m) > TablePosition(doc, n)
                  /\ extractRows(doc, m) # <<>> <=>
                        \E i \in 1..Len(tables) :
                            /\ tables[i].Index = TablePosition(doc, m)
                            /\ tables[i].Rows = extractRows(doc, m)

\* C20 witness: a table in a cell of another is the second record, and the
\* enclosing table counts the nested row among its own.
C20_Witness ==
    /\ Parsed
    /\ Len(tables) = 2
    /\ tables[1].Index = 1
    /\ tables[2].Index = 2
    /\ \E n \in TableNodes(doc) : \E m \in NestedTables(doc, n) :
          /\ TrNodes(doc, m) # {}
          /\ Len(rawRows(doc, n)) = 2
          /\ Len(rawRows(doc, m)) = 1
          /\ Len(tables[1].Rows) = 2

\* a step of ApplySpec that is a call of Selector.Apply or of SkipHeader
IsCall == pc = "build" /\ pc' \in {"applied", "skipped"}

\* C21: SkipHeader and Selector.Apply leave their argument unchanged: after
\* the call the caller's list has the same length and order, and every
\* table in it has its Index, ID, Name and all of its rows, the header row
\* included, with the same field values.
C21_ArgumentUnchanged ==
    [][IsCall =>
          /\ Len(tables') = Len(tables)
          /\ \A i \in 1..Len(tables) :
                /\ tables'[i].Index = tables[i].Index
                /\ tables'[i].ID = tables[i].ID
                /\ tables'[i].Name = tables[i].Name
                /\ tables'[i].Rows = tables[i].Rows]_vars

\* Auxiliary to C21: the slice returned with the argument memory is the
\* slice Apply and SkipHeader return.
C21_SameResult ==
    /\ pc = "applied" => out = ApplyCall(sel, tables).out
    /\ pc = "skipped" => out = SkipHeaderCall(tables).out

\* C21 witness: SkipHeader dropped a one-row table and cut the header of
\* another in its result, and the caller's list still holds both tables,
\* the second with its header row.
C21_Witness ==
    /\ pc = "skipped"
    /\ Len(tables) = 2
    /\ Len(out) = 1
    /\ Len(tables[1].Rows) = 1
    /\ Len(tables[2].Rows) > 1
    /\ out[1].Rows = Tail(tables[2].Rows)
    /\ out[1].Index = tables[2].Index

\* C21 witness for Apply: a selector kept one of two tables, and the
\* caller's list still holds both.
C21_WitnessApply ==
    /\ pc = "applied"
    /\ NonEmptySelector(sel)
    /\ Len(tables) = 2
    /\ Len(out) = 1
    /\ out[1] = tables[2]

====
